---- MODULE Spec2Model ----
(***************************************************************************)
(* Model of find_suggested_phrases.py: the abbreviation candidate          *)
(* generator (get_possible_abbrevs), the greedy assignment loop            *)
(* (match_abbrevs_to_phrases) and the phrase ranker                        *)
(* (get_best_phrases_to_shorten).                                          *)
(*                                                                         *)
(* A Python str is a sequence of one-character strings, so that indexing,  *)
(* slicing, len() and comparison are computed as Python computes them.     *)
(* A dict is a function whose DOMAIN is its key set; a set is a set.       *)
(***************************************************************************)
EXTENDS Integers, Sequences, FiniteSets, TLC

\* ------------------------------------------------------------------ bounds

\* Longest ranked list handed to match_abbrevs_to_phrases.
MaxResults == 3

\* Longest phrase of the generated inputs of get_possible_abbrevs.
MaxPhraseLen == 4

\* Largest number of entries of the n-gram Counter handed to the ranker.
MaxGrams == 3

\* Largest cutoff n_to_keep handed to the ranker.
MaxKeep == 3

\* ------------------------------------------------------- Python str helpers

Min(a, b) == IF a < b THEN a ELSE b

Max(a, b) == IF a > b THEN a ELSE b

\* s[:n], for n >= 0
Prefix(s, n) == SubSeq(s, 1, Min(n, Len(s)))

\* s[-n:], for n >= 1
Suffix(s, n) == SubSeq(s, Max(1, Len(s) - n + 1), Len(s))

\* s[k] for a 0-based index k (a one-character str); the caller guards k < len(s)
At(s, k) == <<s[k + 1]>>

\* s[-1]
Last(s) == <<s[Len(s)]>>

\* s.replace(" ", "")
RECURSIVE RemoveSpaces(_)
RemoveSpaces(s) ==
    IF s = <<>> THEN <<>>
    ELSE IF Head(s) = " " THEN RemoveSpaces(Tail(s))
    ELSE <<Head(s)>> \o RemoveSpaces(Tail(s))

\* s.split(): the maximal runs of non-space characters, empty runs dropped.
\* cur is the run being read.
RECURSIVE SplitFrom(_, _)
SplitFrom(s, cur) ==
    IF s = <<>> THEN (IF cur = <<>> THEN <<>> ELSE <<cur>>)
    ELSE IF Head(s) = " "
         THEN (IF cur = <<>> THEN <<>> ELSE <<cur>>) \o SplitFrom(Tail(s), <<>>)
         ELSE SplitFrom(Tail(s), Append(cur, Head(s)))

Split(s) == SplitFrom(s, <<>>)

\* "".join([w[0] for w in words])
RECURSIVE Acronym(_)
Acronym(words) ==
    IF words = <<>> THEN <<>>
    ELSE At(Head(words), 0) \o Acronym(Tail(words))

\* " ".join(words)
RECURSIVE Join(_)
Join(words) ==
    IF words = <<>> THEN <<>>
    ELSE IF Len(words) = 1 THEN Head(words)
    ELSE Head(words) \o <<" ">> \o Join(Tail(words))

\* ------------------------------------------------------ get_possible_abbrevs

\* Mutant of RaisesIndexError: the len(phrase) < 2 guard is missing.
RaisesWithoutGuard(phrase) ==
    Len(RemoveSpaces(phrase)) < 2

\* The indexing phrase[0], phrase[1] of the space-free phrase raises IndexError
\* when fewer than two characters are left; the len(phrase) < 2 guard returns
\* before it.
RaisesIndexError(phrase) ==
    /\ Len(phrase) >= 2
    /\ Len(RemoveSpaces(phrase)) < 2

\* The multi-word candidates: acronym, first letters of the first two words,
\* first two letters of word one plus first letter of word two.
WordAbbrevs(words) ==
    IF Len(words) > 1
    THEN << Acronym(words),
            At(words[1], 0) \o At(words[2], 0),
            Prefix(words[1], 2) \o At(words[2], 0) >>
    ELSE <<>>

\* Mutant of LetterAbbrevs: the second character is listed once only.
LetterAbbrevsNoRepeat(p) ==
    << At(p, 0),
       At(p, 0) \o Last(p),
       Prefix(p, 2),
       At(p, 1),
       Last(p),
       Prefix(p, 3),
       Prefix(p, 2) \o Last(p),
       At(p, 0) \o Suffix(p, 2),
       Prefix(p, 4),
       Prefix(p, 2) \o Suffix(p, 2) >>

\* The eleven candidates taken from the phrase with its spaces removed.
LetterAbbrevs(p) ==
    << At(p, 0),
       At(p, 0) \o Last(p),
       Prefix(p, 2),
       At(p, 1),
       Last(p),
       At(p, 1),
       Prefix(p, 3),
       Prefix(p, 2) \o Last(p),
       At(p, 0) \o Suffix(p, 2),
       Prefix(p, 4),
       Prefix(p, 2) \o Suffix(p, 2) >>

\* get_possible_abbrevs(phrase), defined where it does not raise.
get_possible_abbrevs(phrase) ==
    IF Len(phrase) < 2 THEN <<phrase>>
    ELSE WordAbbrevs(Split(phrase)) \o LetterAbbrevs(RemoveSpaces(phrase))

\* ------------------------------------------------- phrases of the model

S_z == <<"z">>

S_zzz == <<"z", "z", "z">>

S_zzzzz == <<"z", "z", "z", "z", "z">>

S_zz_xx == <<"z", "z", " ", "x", "x">>

S_again == <<"a", "g", "a", "i", "n">>

\* The rows (score, phrase) a ranked list is made of: the three rows of
\* test_match_abbrevs, a preset key, and a phrase of fewer than 2 characters.
Rows ==
    { <<100, S_zzz>>, <<90, S_zzzzz>>, <<80, S_zz_xx>>,
      <<60, S_again>>, <<-4, S_z>> }

\* All lists of at most n rows
RECURSIVE ListsUpTo(_)
ListsUpTo(n) ==
    IF n = 0 THEN {<<>>}
    ELSE LET shorter == ListsUpTo(n - 1)
         IN  shorter \cup
             { Append(l, r) : l \in {x \in shorter : Len(x) = n - 1}, r \in Rows }

RankedLists == ListsUpTo(MaxResults)

\* ------------------------------------------ preset_abbrevs.py (module data)

\* The single letters the model's phrases are written with.
Letters == {"a", "g", "i", "n", "x", "z"}

\* BLACKLIST as loaded: single letters (test_presets: "a" in BLACKLIST).
BLACKLIST_loaded == { <<c>> : c \in Letters }

\* PRESET_ABBREVS as loaded (test_presets: "again" in PRESET_ABBREVS).
PRESET_ABBREVS == (S_again :> <<"a", "g">>)

\* A hand-written table whose abbreviation is no shorter than len(phrase) - 1.
HandTable == (S_zzz :> <<"z", "z">>)

EmptyTable == [p \in {} |-> <<>>]

\* The tables a caller passes as `presets`.
PresetTables == {PRESET_ABBREVS, HandTable, EmptyTable}

\* dict.values() as a set
Values(d) == { d[k] : k \in DOMAIN d }

\* d[k] = v
DictSet(d, k, v) == [x \in DOMAIN d \cup {k} |-> IF x = k THEN v ELSE d[x]]

\* ------------------------------------------------ match_abbrevs_to_phrases

VARIABLES
    BLACKLIST,          \* the module-level set; abbrev_set is this very object
    presets,            \* the caller's dict; shortcut_dict is this very object
    results,            \* the ranked list of the call
    i,                  \* 1-based position of the next row of results
    pc,                 \* "idle", "loop", "returned", "raised", or "rank"
    phrase,             \* local: phrase of the row last read
    posssible_abbrevs,  \* local: candidates last generated
    abbrev,             \* local: loop variable of the candidate scan
    outcome,            \* branch the last iteration took
    stdout,             \* (phrase, score) of the warnings printed by the call
    BLACKLIST_at_call,  \* BLACKLIST's elements when the call was entered
    presets_at_call,    \* the entries of `presets` when the call was entered
    first_table,        \* the table of the first call
    first_registry,     \* the entries of the dict the first call returned
    rerun,              \* TRUE from the second call on
    phrase_counts,      \* ranker input: the Counter's (ngram, count) entries
    n_to_keep,          \* ranker input: the cutoff
    phrase_data,        \* ranker output
    gpa_phrase,         \* get_possible_abbrevs harness: the argument
    gpa_out             \* get_possible_abbrevs harness: the value returned

matchVars ==
    << BLACKLIST, presets, results, i, pc, phrase, posssible_abbrevs, abbrev,
       outcome, stdout, BLACKLIST_at_call, presets_at_call, first_table,
       first_registry, rerun >>

rankVars == << phrase_counts, n_to_keep, phrase_data >>

gpaVars == << gpa_phrase, gpa_out >>

vars == << matchVars, rankVars, gpaVars >>

\* Mutant of Fits: one character saved is enough.
FitsOneShorter(a, abbrev_set, ph) ==
    a \notin abbrev_set /\ Len(a) < Len(ph)

\* Mutant of Fits: the used set is not consulted.
FitsIgnoringUsed(a, abbrev_set, ph) ==
    Len(a) < Len(ph) - 1

\* The test of the candidate scan: unused, and saves at least two characters.
Fits(a, abbrev_set, ph) ==
    a \notin abbrev_set /\ Len(a) < Len(ph) - 1

\* Mutant of Scan: no break, the last fitting candidate wins.
RECURSIVE ScanLast(_, _, _, _)
ScanLast(cands, k, abbrev_set, ph) ==
    IF k > Len(cands) THEN 0
    ELSE LET later == ScanLast(cands, k + 1, abbrev_set, ph)
         IN  IF later > 0 THEN later
             ELSE IF Fits(cands[k], abbrev_set, ph) THEN k
             ELSE 0

\* for abbrev in posssible_abbrevs: ... break -- the index of the candidate the
\* loop breaks at, scanning from k; 0 when the loop runs to its else branch.
RECURSIVE Scan(_, _, _, _)
Scan(cands, k, abbrev_set, ph) ==
    IF k > Len(cands) THEN 0
    ELSE IF Fits(cands[k], abbrev_set, ph) THEN k
    ELSE Scan(cands, k + 1, abbrev_set, ph)

\* Function entry: abbrev_set = BLACKLIST, shortcut_dict = presets (both
\* aliases, no copy), then every preset value is added to abbrev_set.
Enter(rs, dict) ==
    /\ results' = rs
    /\ presets' = dict
    /\ BLACKLIST' = BLACKLIST \cup Values(dict)
    /\ BLACKLIST_at_call' = BLACKLIST
    /\ presets_at_call' = dict
    /\ i' = 1
    /\ pc' = "loop"
    /\ phrase' = <<>>
    /\ posssible_abbrevs' = <<>>
    /\ abbrev' = <<>>
    /\ outcome' = "none"
    /\ stdout' = <<>>

\* The first call of the process: any ranked list, any table.
Call ==
    /\ pc = "idle"
    /\ \E rs \in RankedLists, t \in PresetTables :
          /\ Enter(rs, t)
          /\ first_table' = t
    /\ rerun' = FALSE
    /\ UNCHANGED << first_registry, rankVars, gpaVars >>

\* Mutant of AlreadyKey: the `continue` is never taken.
NeverKey(ph, shortcut_dict) == FALSE

\* `phrase in shortcut_dict`
AlreadyKey(ph, shortcut_dict) == ph \in DOMAIN shortcut_dict

\* One iteration of `for row in results`.
Iterate ==
    /\ pc = "loop"
    /\ i <= Len(results)
    /\ LET score == results[i][1]
           ph == results[i][2]
       IN  /\ phrase' = ph
           /\ IF AlreadyKey(ph, presets)
              THEN /\ outcome' = "continue"
                   /\ pc' = pc
                   /\ UNCHANGED << BLACKLIST, presets, posssible_abbrevs,
                                   abbrev, stdout >>
              ELSE IF RaisesIndexError(ph)
              THEN /\ outcome' = "raised"
                   /\ pc' = "raised"
                   /\ UNCHANGED << BLACKLIST, presets, posssible_abbrevs,
                                   abbrev, stdout >>
              ELSE \E cands \in {get_possible_abbrevs(ph)} :
                   \E k \in {Scan(cands, 1, BLACKLIST, ph)} :
                       /\ posssible_abbrevs' = cands
                       /\ pc' = pc
                       /\ IF k > 0
                          THEN /\ abbrev' = cands[k]
                               /\ BLACKLIST' = BLACKLIST \cup {cands[k]}
                               /\ presets' = DictSet(presets, ph, cands[k])
                               /\ outcome' = "assigned"
                               /\ stdout' = stdout
                          ELSE /\ abbrev' = cands[Len(cands)]
                               /\ stdout' = Append(stdout, <<ph, score>>)
                               /\ outcome' = "warned"
                               /\ UNCHANGED << BLACKLIST, presets >>
    /\ i' = i + 1
    /\ UNCHANGED << results, BLACKLIST_at_call, presets_at_call, first_table,
                    first_registry, rerun, rankVars, gpaVars >>

\* return shortcut_dict
Return ==
    /\ pc = "loop"
    /\ i > Len(results)
    /\ pc' = "returned"
    /\ first_registry' = IF rerun THEN first_registry ELSE presets
    /\ UNCHANGED << BLACKLIST, presets, results, i, phrase, posssible_abbrevs,
                    abbrev, outcome, stdout, BLACKLIST_at_call,
                    presets_at_call, first_table, rerun, rankVars, gpaVars >>

\* The caller runs the function again on the same ranked list with a fresh
\* dict holding the table of the first call.
RerunSameTable ==
    /\ pc = "returned"
    /\ Enter(results, first_table)
    /\ rerun' = TRUE
    /\ UNCHANGED << first_table, first_registry, rankVars, gpaVars >>

\* The caller runs the function again on the same ranked list and passes the
\* same dict object (as __main__ does with PRESET_ABBREVS).
RerunSameObject ==
    /\ pc = "returned"
    /\ Enter(results, presets)
    /\ rerun' = TRUE
    /\ UNCHANGED << first_table, first_registry, rankVars, gpaVars >>

\* The module as imported, no call made yet
MatchInit ==
    /\ BLACKLIST = BLACKLIST_loaded
    /\ presets = EmptyTable
    /\ results = <<>>
    /\ i = 1
    /\ phrase = <<>>
    /\ posssible_abbrevs = <<>>
    /\ abbrev = <<>>
    /\ outcome = "none"
    /\ stdout = <<>>
    /\ BLACKLIST_at_call = BLACKLIST_loaded
    /\ presets_at_call = EmptyTable
    /\ first_table = EmptyTable
    /\ first_registry = EmptyTable
    /\ rerun = FALSE

RankIdle ==
    /\ phrase_counts = <<>>
    /\ n_to_keep = 0
    /\ phrase_data = <<>>

GpaIdle ==
    /\ gpa_phrase = <<>>
    /\ gpa_out = <<>>

Init ==
    /\ pc = "idle"
    /\ MatchInit
    /\ RankIdle
    /\ GpaIdle

Next ==
    \/ Call
    \/ Iterate
    \/ Return
    \/ RerunSameTable
    \/ RerunSameObject

Spec == Init /\ [][Next]_vars

\* The function is synchronous: a call that has been entered runs its loop to
\* the end and returns.
FairSpec == Spec /\ WF_vars(Iterate) /\ WF_vars(Return)

\* ------------------------------------------- get_possible_abbrevs, called

S_an == <<"a", "n">>

S_the == <<"t", "h", "e">>

S_different == <<"d", "i", "f", "f", "e", "r", "e", "n", "t">>

S_in_the_robots ==
    <<"i", "n", " ", "t", "h", "e", " ", "r", "o", "b", "o", "t", "s">>

\* The phrases of test_get_abbreviations
TestPhrases == {S_an, S_the, S_different, S_in_the_robots}

\* A Phrase: word tokens joined by single spaces
WellFormed(s) ==
    /\ Len(s) >= 1
    /\ s[1] # " "
    /\ s[Len(s)] # " "
    /\ \A k \in 1..(Len(s) - 1) : ~(s[k] = " " /\ s[k + 1] = " ")

\* Every string of exactly n characters over z, x and the space
RECURSIVE StringsOfLen(_)
StringsOfLen(n) ==
    IF n = 0 THEN {<<>>}
    ELSE { Append(s, c) : s \in StringsOfLen(n - 1), c \in {"z", "x", " "} }

GpaPhrases ==
    TestPhrases \cup
    { s \in UNION { StringsOfLen(n) : n \in 1..MaxPhraseLen } : WellFormed(s) }

InitGpa ==
    /\ pc = "gpa"
    /\ MatchInit
    /\ RankIdle
    /\ gpa_phrase \in GpaPhrases
    /\ gpa_out = <<>>

\* out = get_possible_abbrevs(phrase)
CallGetPossibleAbbrevs ==
    /\ pc = "gpa"
    /\ ~RaisesIndexError(gpa_phrase)
    /\ gpa_out' = get_possible_abbrevs(gpa_phrase)
    /\ pc' = "gpa_done"
    /\ UNCHANGED << BLACKLIST, presets, results, i, phrase, posssible_abbrevs,
                    abbrev, outcome, stdout, BLACKLIST_at_call,
                    presets_at_call, first_table, first_registry, rerun,
                    gpa_phrase, rankVars >>

NextGpa == CallGetPossibleAbbrevs

SpecGpa == InitGpa /\ [][NextGpa]_vars

\* ----------------------------------------------- get_best_phrases_to_shorten

\* ord() of the characters the n-grams are written with
Ord(c) ==
    CASE c = " " -> 32
      [] c = "x" -> 120
      [] c = "z" -> 122

\* a < b for two str: the first differing character decides, a proper prefix
\* is smaller
RECURSIVE StrLess(_, _)
StrLess(a, b) ==
    IF b = <<>> THEN FALSE
    ELSE IF a = <<>> THEN TRUE
    ELSE IF Head(a) # Head(b) THEN Ord(Head(a)) < Ord(Head(b))
    ELSE StrLess(Tail(a), Tail(b))

\* Mutant of TupleLess: sorted by key=score only.
ScoreLess(a, b) == a[1] < b[1]

\* a < b for two tuples (score, phrase, phrase_len, count)
TupleLess(a, b) ==
    IF a[1] # b[1] THEN a[1] < b[1]
    ELSE IF a[2] # b[2] THEN StrLess(a[2], b[2])
    ELSE IF a[3] # b[3] THEN a[3] < b[3]
    ELSE a[4] < b[4]

\* One step of sorted(..., reverse=True): x goes before the first element
\* smaller than it, so equal elements keep the order they arrived in.
RECURSIVE InsertDesc(_, _)
InsertDesc(sorted, x) ==
    IF sorted = <<>> THEN <<x>>
    ELSE IF TupleLess(Head(sorted), x) THEN <<x>> \o sorted
    ELSE <<Head(sorted)>> \o InsertDesc(Tail(sorted), x)

\* sorted(data, reverse=True)
RECURSIVE SortedReverse(_)
SortedReverse(data) ==
    IF data = <<>> THEN <<>>
    ELSE InsertDesc(SortedReverse(SubSeq(data, 1, Len(data) - 1)),
                    data[Len(data)])

\* The loop over phrase_counts.items(): the tuples appended to phrase_data,
\* in the Counter's insertion order.
RECURSIVE Collect(_)
Collect(items) ==
    IF items = <<>> THEN <<>>
    ELSE LET phrase_tuple == Head(items)[1]
             count == Head(items)[2]
             ph == Join(phrase_tuple)
             phrase_len == Len(ph)
             avg_shortcut_len == 2
             score == (phrase_len - avg_shortcut_len) * count
         IN  IF count <= 3 \/ phrase_len < 2
             THEN Collect(Tail(items))
             ELSE << <<score, ph, phrase_len, count>> >> \o Collect(Tail(items))

get_best_phrases_to_shorten(items, keep) ==
    Prefix(SortedReverse(Collect(items)), keep)

\* The n-grams (tuples of tokens) of the model's corpus
Ngrams ==
    { << <<"z">> >>,
      << <<"z", "z", "z">> >>,
      << <<"z", "z", "z", "z", "z">> >>,
      << <<"z", "z">>, <<"x", "x">> >> }

\* The occurrence counts of the model's corpus
Counts == {3, 4, 12}

\* The keys of a Counter given as its (ngram, count) entries
Keys(c) == { c[k][1] : k \in 1..Len(c) }

\* A Counter with n entries: distinct keys, in every insertion order
RECURSIVE CountersOfSize(_)
CountersOfSize(n) ==
    IF n = 0 THEN {<<>>}
    ELSE UNION { { Append(c, <<g, k>>) : g \in Ngrams \ Keys(c), k \in Counts } :
                 c \in CountersOfSize(n - 1) }

Counters == UNION { CountersOfSize(n) : n \in 0..MaxGrams }

InitRank ==
    /\ pc = "rank"
    /\ MatchInit
    /\ GpaIdle
    /\ phrase_counts \in Counters
    /\ n_to_keep \in 0..MaxKeep
    /\ phrase_data = <<>>

\* phrase_data = get_best_phrases_to_shorten(phrase_counts, n_to_keep)
CallGetBestPhrases ==
    /\ pc = "rank"
    /\ phrase_data' = get_best_phrases_to_shorten(phrase_counts, n_to_keep)
    /\ pc' = "ranked"
    /\ UNCHANGED << BLACKLIST, presets, results, i, phrase, posssible_abbrevs,
                    abbrev, outcome, stdout, BLACKLIST_at_call,
                    presets_at_call, first_table, first_registry, rerun,
                    phrase_counts, n_to_keep, gpaVars >>

NextRank == CallGetBestPhrases

SpecRank == InitRank /\ [][NextRank]_vars

\* ===================================================================
\* Properties of match_abbrevs_to_phrases
\* ===================================================================

\* The call is running or has returned
InCall == pc \in {"loop", "returned"}

\* The keys the current call derived (not in the dict when it was entered)
DerivedKeys == DOMAIN presets \ DOMAIN presets_at_call

\* "at least two characters shorter than the phrase"
TwoShorter(a, ph) == Len(a) <= Len(ph) - 2

\* C1: in the Registry, during and after a call, the abbreviations of two
\* distinct phrases differ and no abbreviation is a member of the Blacklist
\* (the module's BLACKLIST set), preset entries included.
C1_DistinctAndOffBlacklist ==
    InCall =>
        /\ \A p, q \in DOMAIN presets : p # q => presets[p] # presets[q]
        /\ \A p \in DOMAIN presets : presets[p] \notin BLACKLIST

\* C2: a second call with the same ranked list and the table as it was before
\* the first call returns a Registry equal to the one the first call returned.
C2_RerunSameRegistry ==
    (pc = "returned" /\ rerun /\ presets_at_call = first_table)
        => presets = first_registry

\* C3 as stated: every key P of the returned Registry, with abbreviation A,
\* has len(A) <= len(P) - 2.
C3_EveryKeyTwoShorter ==
    pc = "returned" =>
        \A p \in DOMAIN presets : TwoShorter(presets[p], p)

\* C3 amended: every key of the returned Registry that the call derived (that
\* is not a key of the table passed in) has len(A) <= len(P) - 2.
C3_DerivedKeyTwoShorter ==
    pc = "returned" =>
        \A p \in DerivedKeys : TwoShorter(presets[p], p)

\* A call has returned a Registry with a derived entry beside a preset entry
\* that is not two characters shorter than its phrase.
C3_Witness ==
    /\ pc = "returned"
    /\ DerivedKeys # {}
    /\ \E p \in DOMAIN presets_at_call : ~TwoShorter(presets[p], p)

\* C4: after a call the Blacklist set and the Preset Table passed in hold
\* exactly the elements they held before the call.
C4_InputsUnchanged ==
    pc = "returned" =>
        /\ BLACKLIST = BLACKLIST_at_call
        /\ presets = presets_at_call

\* The ranked input of test_match_abbrevs
TestInput == << <<100, S_zzz>>, <<90, S_zzzzz>>, <<80, S_zz_xx>> >>

\* The Registry test_match_abbrevs expects
TestExpected ==
    [p \in DOMAIN PRESET_ABBREVS \cup {S_zzzzz, S_zz_xx} |->
        IF p = S_zzzzz THEN <<"z", "z">>
        ELSE IF p = S_zz_xx THEN <<"z", "x">>
        ELSE PRESET_ABBREVS[p]]

\* The first call of the process was test_match_abbrevs' and has returned
TestReturned ==
    /\ pc = "returned"
    /\ ~rerun
    /\ results = TestInput
    /\ presets_at_call = PRESET_ABBREVS

\* The candidates of a phrase, as a set
Candidates(ph) ==
    { get_possible_abbrevs(ph)[k] : k \in 1..Len(get_possible_abbrevs(ph)) }

C6_EntriesNeverChange ==
    [][ (pc = "loop" /\ pc' \in {"loop", "returned"}) =>
           /\ \A p \in DOMAIN presets :
                 p \in DOMAIN presets' /\ presets'[p] = presets[p]
           /\ \A p \in DOMAIN presets_at_call :
                 p \in DOMAIN presets' /\ presets'[p] = presets_at_call[p]
           /\ (i <= Len(results) /\ results[i][2] \in DOMAIN presets) =>
                 (presets' = presets /\ BLACKLIST' = BLACKLIST)
      ]_vars

\* A call has returned whose ranked list holds a preset key and, twice, a
\* phrase that was given an abbreviation.
C6_Witness ==
    /\ pc = "returned"
    /\ \E a, b, c \in 1..Len(results) :
          /\ a < b
          /\ results[a][2] = results[b][2]
          /\ results[a][2] \in DerivedKeys
          /\ results[c][2] \in DOMAIN presets_at_call

\* C7: no call fails: it never raises, it returns, having read every row; an
\* iteration whose phrase has no candidate that is both unused and at least
\* two characters shorter leaves the Registry and the used set as they were
\* and moves on to the next row; at return every phrase of the list (phrases
\* of fewer than 2 characters included) is a key or was warned about.
C7_NoFatalFailure ==
    /\ [](pc # "raised")
    /\ [][ ( /\ pc = "loop"
             /\ i <= Len(results)
             /\ results[i][2] \notin DOMAIN presets
             /\ \A c \in Candidates(results[i][2]) :
                   c \in BLACKLIST \/ ~TwoShorter(c, results[i][2]) )
           => ( /\ presets' = presets
                /\ BLACKLIST' = BLACKLIST
                /\ pc' = "loop"
                /\ i' = i + 1
                /\ stdout' = Append(stdout, <<results[i][2], results[i][1]>>) )
       ]_vars
    /\ [](pc = "returned" =>
            /\ i = Len(results) + 1
            /\ \A k \in 1..Len(results) :
                  \/ results[k][2] \in DOMAIN presets
                  \/ \E w \in 1..Len(stdout) : stdout[w][1] = results[k][2])
    /\ ((pc = "loop") ~> (pc = "returned"))

\* A call has returned that skipped a phrase of fewer than 2 characters and
\* a longer phrase with no usable candidate, and after them gave a later
\* phrase an abbreviation.
C7_Witness ==
    /\ pc = "returned"
    /\ Len(results) = 3
    /\ Len(stdout) = 2
    /\ stdout[1][1] = results[1][2]
    /\ stdout[2][1] = results[2][2]
    /\ \E w \in 1..2 : Len(stdout[w][1]) < 2
    /\ results[3][2] \in DerivedKeys

\* C9: an iteration that enters a phrase into the Registry enters the
\* earliest candidate, in get_possible_abbrevs order, that is not in the used
\* set at that moment and is at least two characters shorter than the
\* phrase; the used set is the Blacklist as the call found it, the preset
\* values and the abbreviations given to earlier rows.
C9_GreedyFirstFit ==
    [][ ( /\ pc = "loop"
          /\ i <= Len(results)
          /\ results[i][2] \notin DOMAIN presets
          /\ results[i][2] \in DOMAIN presets' )
        => LET ph == results[i][2]
               cands == get_possible_abbrevs(ph)
           IN  /\ BLACKLIST =
                     BLACKLIST_at_call \cup Values(presets_at_call)
                     \cup { presets[q] : q \in DerivedKeys }
               /\ DerivedKeys \subseteq { results[j][2] : j \in 1..(i - 1) }
               /\ \E k \in 1..Len(cands) :
                     /\ presets'[ph] = cands[k]
                     /\ cands[k] \notin BLACKLIST
                     /\ TwoShorter(cands[k], ph)
                     /\ \A j \in 1..(k - 1) :
                           cands[j] \in BLACKLIST \/ ~TwoShorter(cands[j], ph)
      ]_vars

\* An iteration has just entered a candidate that is not the first of the
\* list: earlier candidates were used or too long.
C9_Witness ==
    /\ pc = "loop"
    /\ outcome = "assigned"
    /\ phrase \in DerivedKeys
    /\ presets[phrase] = abbrev
    /\ \E k \in 2..Len(posssible_abbrevs) :
          /\ posssible_abbrevs[k] = abbrev
          /\ \A j \in 1..(k - 1) : posssible_abbrevs[j] # abbrev

\* ===================================================================
\* Properties of get_possible_abbrevs
\* ===================================================================

\* The letters of a phrase: its characters other than the space
LettersOf(ph) == SelectSeq(ph, LAMBDA c : c # " ")

\* The positions at which the words of a phrase start, in order
WordStarts(ph) ==
    LET isStart(k) == ph[k] # " " /\ (k = 1 \/ ph[k - 1] = " ")
        starts == { k \in 1..Len(ph) : isStart(k) }
        nth(n) == CHOOSE k \in starts :
                     Cardinality({ j \in starts : j < k }) = n - 1
    IN  [n \in 1..Cardinality(starts) |-> nth(n)]

\* The sequence the specification lists for a phrase of two characters or more
ListedAbbrevs(ph) ==
    LET c == LettersOf(ph)
        n == Len(c)
        w == WordStarts(ph)
        wordOneLen == IF Len(w) > 1 THEN w[2] - 2 ELSE Len(ph)
        firstN(m) == [j \in 1..(IF m < n THEN m ELSE n) |-> c[j]]
        lastTwo == <<c[n - 1], c[n]>>
        multi ==
            IF Len(w) > 1
            THEN << [k \in 1..Len(w) |-> ph[w[k]]],
                    <<ph[w[1]], ph[w[2]]>>,
                    IF wordOneLen >= 2
                    THEN <<ph[1], ph[2], ph[w[2]]>>
                    ELSE <<ph[1], ph[w[2]]>> >>
            ELSE <<>>
    IN  multi \o
        << <<c[1]>>,
           <<c[1], c[n]>>,
           <<c[1], c[2]>>,
           <<c[2]>>,
           <<c[n]>>,
           <<c[2]>>,
           firstN(3),
           <<c[1], c[2], c[n]>>,
           <<c[1]>> \o lastTwo,
           firstN(4),
           <<c[1], c[2]>> \o lastTwo >>

\* The set of elements of a list
Elements(l) == { l[k] : k \in 1..Len(l) }

\* C8: for a phrase of at least 2 characters, get_possible_abbrevs returns
\* exactly: for more than one word, the acronym, the first letters of the
\* first two words, the first two letters of word one plus the first of word
\* two; then first, first+last, first two, second, last, second, first three,
\* first two+last, first+last two, first four, first two+last two of the
\* phrase without spaces. Nothing is filtered, so "the" yields "t" and "th",
\* "different" yields "dt", "dif", "diff", "in the robots" yields "itr".
C8_CandidateSequence ==
    (pc = "gpa_done" /\ Len(gpa_phrase) >= 2) =>
        /\ gpa_out = ListedAbbrevs(gpa_phrase)
        /\ Len(gpa_out) = IF Len(WordStarts(gpa_phrase)) > 1 THEN 14 ELSE 11
        /\ gpa_phrase = S_the =>
              {<<"t">>, <<"t", "h">>} \subseteq Elements(gpa_out)
        /\ gpa_phrase = S_different =>
              { <<"d", "t">>, <<"d", "i", "f">>, <<"d", "i", "f", "f">> }
                  \subseteq Elements(gpa_out)
        /\ gpa_phrase = S_in_the_robots =>
              <<"i", "t", "r">> \in Elements(gpa_out)

\* get_possible_abbrevs has returned the candidates of a phrase of three
\* words, among them one as long as the phrase's letters.
C8_Witness ==
    /\ pc = "gpa_done"
    /\ gpa_phrase = S_in_the_robots
    /\ Len(gpa_out) = 14
    /\ gpa_out[1] = <<"i", "t", "r">>

\* ===================================================================
\* Properties of get_best_phrases_to_shorten
\* ===================================================================

\* The tuple the ranker makes of one Counter entry
TupleOf(entry) ==
    << (Len(Join(entry[1])) - 2) * entry[2], Join(entry[1]),
       Len(Join(entry[1])), entry[2] >>

\* The Counter entries the ranker does not discard
Eligible(items) ==
    { items[k] : k \in { j \in 1..Len(items) :
                           items[j][2] > 3 /\ Len(Join(items[j][1])) >= 2 } }

\* Every order the same entries can have been inserted in
Reorderings(items) ==
    { [k \in 1..Len(items) |-> items[f[k]]] :
        f \in { g \in [1..Len(items) -> 1..Len(items)] :
                  \A a, b \in 1..Len(items) : a # b => g[a] # g[b] } }

\* C10: the ranker returns at most K tuples (score, phrase, length, count),
\* each made of an n-gram with count > 3 and joined length >= 2, with
\* score = (length - 2) * count, no n-gram twice, as many as K and the
\* eligible n-grams allow, ordered by score descending; no omitted eligible
\* n-gram has a higher score than an included one; and the result is the
\* same whatever order the Counter's entries were inserted in.
C10_RankedTopK ==
    pc = "ranked" =>
        LET out == phrase_data
            elig == Eligible(phrase_counts)
        IN  /\ Len(out) <= n_to_keep
            /\ Len(out) = Min(n_to_keep, Cardinality(elig))
            /\ \A k \in 1..Len(out) : \E e \in elig : out[k] = TupleOf(e)
            /\ \A a, b \in 1..Len(out) : a # b => out[a][2] # out[b][2]
            /\ \A k \in 1..(Len(out) - 1) : out[k][1] >= out[k + 1][1]
            /\ \A e \in elig :
                  (\A k \in 1..Len(out) : out[k] # TupleOf(e)) =>
                      \A k \in 1..Len(out) : TupleOf(e)[1] <= out[k][1]
            /\ \A other \in Reorderings(phrase_counts) :
                  get_best_phrases_to_shorten(other, n_to_keep) = out

\* The ranker has returned one of two eligible phrases of equal score, the
\* one inserted last, and cut the other off.
C10_Witness ==
    /\ pc = "ranked"
    /\ n_to_keep = 1
    /\ Len(phrase_data) = 1
    /\ Len(phrase_counts) = 3
    /\ phrase_counts[1][2] <= 3
    /\ TupleOf(phrase_counts[2])[1] = TupleOf(phrase_counts[3])[1]
    /\ phrase_data[1] = TupleOf(phrase_counts[3])

====
